---------------------------- MODULE Spec2Model ----------------------------
(***************************************************************************)
(* A model of etubeapi (src/src/etubeapi/lib.py): the Version value type   *)
(* with its integer encoding, the memoized retrying fetcher http_request,  *)
(* the bisecting discoverer get_firmware_list_bisect and the reconciling   *)
(* and link-verifying pipeline get_all_firmware.                           *)
(*                                                                         *)
(* Python strings that the code takes apart (version strings, filenames,   *)
(* model names) are sequences of one-character strings.  A raised Python   *)
(* exception is a record with the single field exc.                        *)
(***************************************************************************)
EXTENDS Integers, Sequences, FiniteSets, TLC

VARIABLES
    vin,        \* Version operations: the input the operation is applied to
    vop,        \* Version operations: the operation applied ("none" before)
    vout,       \* Version operations: what the operation returned or raised
    hpc,        \* http_request: "idle", "loop" (at `while retry`), "returned", "raised"
    hargs,      \* http_request: the arguments [method, url, retry] of the call
    retry,      \* http_request: the local retry
    backoff,    \* http_request: the local backoff
    last_exception, \* http_request: the local last_exception
    hret,       \* http_request: the body returned or the exception raised
    attempts,   \* history: the outcome of every pass through the try block
    sleeps,     \* history: the argument of every time.sleep
    requests,   \* history: the method of every request put on the network
    cache,      \* @cache of http_request: (method, url, retry) -> body returned
    bodyRuns,   \* history: (method, url, retry) -> times the body of http_request ran
    hits,       \* history: the calls of http_request answered from the cache
    steps,      \* the API: the versions (as positions) at which its payload changes
    apiUp,      \* the API: FALSE when it answers every request with a 404
    bpc,        \* get_firmware_list_bisect: "idle", "running", "done", "raised"
    stack,      \* the activations of inner, the innermost last
    progress,   \* the progress bar: the sum of the advances
    result,     \* json_fws_set: what inner(ver_min, ver_max) returned
    invocation, \* history: the calls of get_firmware_list_bisect() so far
    atStart,    \* history: the cache and its run counts when the last call began
    fws,        \* get_all_firmware: what get_firmware_list_bisect() returned
    scraped,    \* get_all_firmware: what firmware_scrape() returned, in dict order
    ppc,        \* get_all_firmware: "start", "matched", "verifying", "done", "raised"
    fws_dict,   \* get_all_firmware: name -> records, in dict order
    fw_name_models, \* get_all_firmware: name -> matched model or None, in dict order
    fws_all_set,    \* get_all_firmware: the reconciled set
    todo,       \* get_all_firmware: sorted(fws_all_set, key=filename)
    fws_all,    \* get_all_firmware: the verified list
    checked     \* history: how the check of each record of todo ended

versionVars == <<vin, vop, vout>>
fetchVars == <<hpc, hargs, retry, backoff, last_exception, hret, attempts,
               sleeps, requests>>
cacheVars == <<cache, bodyRuns, hits>>
bisectVars == <<steps, apiUp, bpc, stack, progress, result, invocation, atStart>>
pipeVars == <<fws, scraped, ppc, fws_dict, fw_name_models, fws_all_set, todo,
              fws_all, checked>>
vars == <<versionVars, fetchVars, cacheVars, bisectVars, pipeVars>>
\* What the operations of one part leave alone: the variables of the others.
notVersion == <<fetchVars, cacheVars, bisectVars, pipeVars>>
notFetch == <<versionVars, cacheVars, bisectVars, pipeVars>>
notBisect == <<versionVars, fetchVars, pipeVars>>
notPipe == <<versionVars, fetchVars, bisectVars>>

-----------------------------------------------------------------------------
(* Bounds of the model.                                                    *)

\* Version fields are drawn from -Slack .. (field of max()) + Slack.
Slack == 1
\* Pairs of versions are drawn with every field in 0..CmpField or at max().
CmpField == 1
\* The largest finite retry budget a caller passes.
MaxBudget == 3
\* The network answers at most MaxAttempts times within one http_request.
MaxAttempts == 7
\* After MaxMixed attempts the network repeats its last failure or succeeds.
MaxMixed == 2
\* A payload function with two breakpoints has them PairGap apart.
PairGap == 1
\* The payload function of many breakpoints has DenseLen of them in a row.
DenseLen == 4
\* One process calls get_firmware_list_bisect() at most MaxInvocations times.
MaxInvocations == 2
\* The discoverer returns at most MaxDiscovered records.
MaxDiscovered == 2
\* The scrape holds at most MaxScraped models.
MaxScraped == 2
\* At most MaxFailures existence checks of a run end in an HTTP error.
MaxFailures == 1

-----------------------------------------------------------------------------
(* Python values.                                                          *)

Raise(name) == [exc |-> name]
IsErr(x) == "exc" \in DOMAIN x

DigitChars == <<"0", "1", "2", "3", "4", "5", "6", "7", "8", "9">>
IsDigit(c) == \E i \in 1..10 : DigitChars[i] = c
DigitVal(c) == (CHOOSE i \in 1..10 : DigitChars[i] = c) - 1

\* str(n) of a non-negative integer: its decimal digits.
RECURSIVE NatStr(_)
NatStr(n) ==
    IF n < 10 THEN <<DigitChars[n + 1]>>
    ELSE NatStr(n \div 10) \o <<DigitChars[(n % 10) + 1]>>

\* str(n) of an integer.
IntStr(n) == IF n < 0 THEN <<"-">> \o NatStr(-n) ELSE NatStr(n)

RECURSIVE DigitsVal(_)
DigitsVal(s) ==
    IF Len(s) = 0 THEN 0
    ELSE 10 * DigitsVal(SubSeq(s, 1, Len(s) - 1)) + DigitVal(s[Len(s)])

\* int(s) of a string: an optional sign and at least one digit, else ValueError.
ParseInt(s) ==
    LET signed == Len(s) > 0 /\ s[1] \in {"-", "+"}
        body == IF signed THEN Tail(s) ELSE s
    IN  IF Len(body) = 0 \/ \E i \in 1..Len(body) : ~IsDigit(body[i])
        THEN [ok |-> FALSE, val |-> 0]
        ELSE [ok |-> TRUE,
              val |-> IF signed /\ s[1] = "-" THEN -DigitsVal(body)
                      ELSE DigitsVal(body)]

\* s.split(".", maxsplit): at most maxsplit cuts, the rest kept whole.
RECURSIVE SplitDot(_, _)
SplitDot(s, maxsplit) ==
    IF maxsplit = 0 \/ ~\E i \in 1..Len(s) : s[i] = "."
    THEN <<s>>
    ELSE LET i == CHOOSE k \in 1..Len(s) :
                      s[k] = "." /\ \A j \in 1..(k - 1) : s[j] # "."
         IN  <<SubSeq(s, 1, i - 1)>>
                 \o SplitDot(SubSeq(s, i + 1, Len(s)), maxsplit - 1)

-----------------------------------------------------------------------------
(* class Version.  A Version is [major, minor, patch]; the argument val of *)
(* the constructor is [str |-> TRUE, chars |-> s] or                       *)
(* [str |-> FALSE, tup |-> <<major, minor, patch>>].                       *)

StrVal(s) == [str |-> TRUE, chars |-> s, tup |-> <<0, 0, 0>>]
TupVal(t) == [str |-> FALSE, chars |-> <<>>, tup |-> t]

\* The first half of __init__: the three fields, or the error of the parse.
VersionFields(val) ==
    IF val.str
    THEN LET tup == SplitDot(val.chars, 3)
         IN  IF Len(tup) < 3 THEN Raise("IndexError")
             ELSE LET ma == ParseInt(tup[1])
                      mi == ParseInt(tup[2])
                      pa == ParseInt(tup[3])
                  IN  IF ~ma.ok \/ ~mi.ok \/ ~pa.ok THEN Raise("ValueError")
                      ELSE [major |-> ma.val, minor |-> mi.val, patch |-> pa.val]
    ELSE [major |-> val.tup[1], minor |-> val.tup[2], patch |-> val.tup[3]]

VersionEq(self, other) ==
    /\ self.major = other.major
    /\ self.minor = other.minor
    /\ self.patch = other.patch

VersionLt(self, other) ==
    \/ self.major < other.major
    \/ self.minor < other.minor
    \/ self.patch < other.patch

\* functools.total_ordering: __gt__ is "not (self < other) and self != other".
VersionGt(self, other) == ~VersionLt(self, other) /\ ~VersionEq(self, other)

VersionMin == VersionFields(StrVal(<<"0", ".", "0", ".", "0">>))
VersionMax == VersionFields(StrVal(<<"1", "0", ".", "2", "0", ".", "2", "0">>))

VersionInit(val, unchecked) ==
    LET self == VersionFields(val)
    IN  IF IsErr(self) \/ unchecked THEN self
        ELSE IF VersionLt(self, VersionMin) THEN Raise("ValueError")
        ELSE IF VersionGt(self, VersionMax) THEN Raise("ValueError")
        ELSE self

VersionInt(self) ==
    self.patch + self.minor * VersionMax.patch
        + self.major * (VersionMax.patch * VersionMax.minor)

\* A from_int without the test of the quotient left over.
VersionFromIntUnchecked(num) ==
    LET divpatch == VersionMax.patch
        divminor == VersionMax.minor
        divmajor == VersionMax.major
        patch == num % divpatch
        num1 == num \div divpatch
        minor == num1 % divminor
        num2 == num1 \div divminor
        major == num2 % divmajor
    IN  VersionInit(TupVal(<<major, minor, patch>>), FALSE)

VersionFromInt(num) ==
    LET divpatch == VersionMax.patch
        divminor == VersionMax.minor
        divmajor == VersionMax.major
        patch == num % divpatch
        num1 == num \div divpatch
        minor == num1 % divminor
        num2 == num1 \div divminor
        major == num2 % divmajor
        num3 == num2 \div divmajor
    IN  IF num3 # 0 THEN Raise("ValueError")
        ELSE VersionInit(TupVal(<<major, minor, patch>>), FALSE)

VersionMid(a, b) == VersionFromInt((VersionInt(a) + VersionInt(b)) \div 2)

VersionSub(self, other) == VersionFromInt(VersionInt(self) - VersionInt(other))

VersionStr(self) ==
    IntStr(self.major) \o <<".">> \o IntStr(self.minor) \o <<".">>
        \o IntStr(self.patch)

-----------------------------------------------------------------------------
(* The Version operations, each applied to an input drawn in Init.         *)

FieldRange(max) == (0 - Slack)..(max + Slack)
Triplets ==
    FieldRange(VersionMax.major) \X FieldRange(VersionMax.minor)
        \X FieldRange(VersionMax.patch)
CmpRange(max) == (0..CmpField) \cup {max}
CmpTriplets ==
    CmpRange(VersionMax.major) \X CmpRange(VersionMax.minor)
        \X CmpRange(VersionMax.patch)
TripletStr(t) == IntStr(t[1]) \o <<".">> \o IntStr(t[2]) \o <<".">> \o IntStr(t[3])
\* Strings that are no "<int>.<int>.<int>": too few parts, a part that is no
\* integer; and one with a fourth part, which split(".", 3) leaves aside.
OddStrings ==
    { <<"2", ".", "5">>, <<"2", ".", "x", ".", "7">>, <<>>,
      <<"2", ".", ".", "7">>, <<"2", ".", "5", ".", "7", ".", "9">>,
      <<"2", ".", "5", ".", "7", "b">> }

\* Integers far outside the encodings: around minus the product of the
\* three divisors of from_int, and at multiples of it.
FarInts ==
    LET product == VersionMax.patch * VersionMax.minor * VersionMax.major
    IN  {0 - product - 1, 0 - product, 0 - VersionMax.patch, 2 * product, 10 * product}

NoVersion == [major |-> 0, minor |-> 0, patch |-> 0]
VIn(kind, val, other, num) == [kind |-> kind, val |-> val, other |-> other, num |-> num]
VersionInputs ==
    {VIn("val", TupVal(t), TupVal(t), 0) : t \in Triplets}
        \cup {VIn("val", StrVal(TripletStr(t)), TupVal(t), 0) : t \in Triplets}
        \cup {VIn("val", StrVal(s), TupVal(<<0, 0, 0>>), 0) : s \in OddStrings}
        \cup {VIn("pair", TupVal(a), TupVal(b), 0) : a \in CmpTriplets, b \in CmpTriplets}
        \cup {VIn("int", TupVal(<<0, 0, 0>>), TupVal(<<0, 0, 0>>), n) :
                  n \in ((0 - Slack)..(VersionInt(VersionMax) + Slack)) \cup FarInts}

VersionIdle ==
    /\ vin = VIn("none", TupVal(<<0, 0, 0>>), TupVal(<<0, 0, 0>>), 0)
    /\ vop = "none"
    /\ vout = NoVersion

\* Version(val)
Construct ==
    /\ vop = "none" /\ vin.kind = "val"
    /\ vop' = "init"
    /\ vout' = VersionInit(vin.val, FALSE)
    /\ UNCHANGED <<vin, notVersion>>

\* Version.from_int(int(Version(val)))
RoundTrip ==
    /\ vop = "none" /\ vin.kind = "val"
    /\ ~IsErr(VersionInit(vin.val, FALSE))
    /\ vop' = "roundtrip"
    /\ vout' = VersionFromInt(VersionInt(VersionInit(vin.val, FALSE)))
    /\ UNCHANGED <<vin, notVersion>>

\* Version(a) < Version(b), the answer in the field lt
Compare ==
    /\ vop = "none" /\ vin.kind = "pair"
    /\ ~IsErr(VersionInit(vin.val, FALSE)) /\ ~IsErr(VersionInit(vin.other, FALSE))
    /\ vop' = "lt"
    /\ vout' = [lt |-> VersionLt(VersionInit(vin.val, FALSE),
                                 VersionInit(vin.other, FALSE))]
    /\ UNCHANGED <<vin, notVersion>>

\* Version.mid(Version(a), Version(b))
Midpoint ==
    /\ vop = "none" /\ vin.kind = "pair"
    /\ ~IsErr(VersionInit(vin.val, FALSE)) /\ ~IsErr(VersionInit(vin.other, FALSE))
    /\ vop' = "mid"
    /\ vout' = VersionMid(VersionInit(vin.val, FALSE), VersionInit(vin.other, FALSE))
    /\ UNCHANGED <<vin, notVersion>>

\* Version.from_int(num)
Decode ==
    /\ vop = "none" /\ vin.kind = "int"
    /\ vop' = "from_int"
    /\ vout' = VersionFromInt(vin.num)
    /\ UNCHANGED <<vin, notVersion>>

VersionNext == Construct \/ RoundTrip \/ Compare \/ Midpoint \/ Decode

-----------------------------------------------------------------------------
(* http_request, the body under @cache: one call, from its arguments to    *)
(* its return or raise.  The network's answer to each pass through the try *)
(* block is an outcome: at says which of the two requests of the block     *)
(* (httpx.request, then httpx.get) ended the pass.                         *)

InitialBackoff == 10
MaxBackoffValue == 300
Unlimited == 0 - 1

Methods == {"GET", "HEAD"}
Servers == {"AkamaiGHost", "nginx"}
ErrorCodes == {403, 404, 429, 500, 503, 599}
\* Bodies are named by numbers; 0 stands for no body.
Bodies == {1, 2}

Outcome(kind, code, server, at, body) ==
    [kind |-> kind, code |-> code, server |-> server, at |-> at, body |-> body]
NoException == Outcome("None", 0, "", 0, 0)
TypeError == Outcome("TypeError", 0, "", 0, 0)
OkOutcomes == {Outcome("ok", 200, s, 2, b) : s \in Servers, b \in Bodies}
TimeoutOutcomes == {Outcome("TimeoutException", 0, "", at, 0) : at \in {1, 2}}
StatusOutcomes ==
    {Outcome("HTTPStatusError", c, s, 2, 0) : c \in ErrorCodes, s \in Servers}
TransportOutcomes == {Outcome("HTTPError", 0, "", at, 0) : at \in {1, 2}}

HRet(status, body, exc) == [status |-> status, body |-> body, exc |-> exc]
NoArgs == [method |-> "", url |-> <<>>, retry |-> 0]

FetchIdle ==
    /\ hpc = "idle"
    /\ hargs = NoArgs
    /\ retry = 0
    /\ backoff = 0
    /\ last_exception = NoException
    /\ hret = HRet("none", 0, NoException)
    /\ attempts = <<>>
    /\ sleeps = <<>>
    /\ requests = <<>>

\* `while retry:` and `if retry:` -- an int is true when it is not 0.
Truthy(n) == n # 0

Min(a, b) == IF a < b THEN a ELSE b

\* The match statement on (status_code, server header): TRUE when the case
\* taken is one of the `pass` cases, FALSE when it is `case _: raise e`.
\* `case 429:` compares the whole pair with the int 429 and is never taken.
\* A match statement whose every case passes: no status is raised.
RetryableAlways(code, server) == TRUE

Retryable(code, server) ==
    \/ code >= 500 /\ code <= 599
    \/ FALSE
    \/ code = 403 /\ server = "AkamaiGHost"

\* What the network may answer to the next attempt.
MayAnswer(o) ==
    /\ Len(attempts) < MaxAttempts
    /\ IF Len(attempts) < MaxMixed \/ Len(attempts) = 0 THEN TRUE
       ELSE o \in OkOutcomes \cup {attempts[Len(attempts)]}

\* The requests a pass through the try block put on the network.
Issued(method, o) == IF o.at = 1 THEN <<method>> ELSE <<method, "GET">>

HttpRequestCall(method, url, budget) ==
    /\ hpc = "idle"
    /\ hpc' = "loop"
    /\ hargs' = [method |-> method, url |-> url, retry |-> budget]
    /\ retry' = budget
    /\ backoff' = InitialBackoff
    /\ last_exception' = NoException
    /\ UNCHANGED <<hret, attempts, sleeps, requests, notFetch>>

\* The try block ran to `return response.read()`.
AttemptReturns(o) ==
    /\ hpc = "loop" /\ Truthy(retry)
    /\ o \in OkOutcomes /\ MayAnswer(o)
    /\ attempts' = Append(attempts, o)
    /\ requests' = requests \o Issued(hargs.method, o)
    /\ hpc' = "returned"
    /\ hret' = HRet("returned", o.body, NoException)
    /\ UNCHANGED <<hargs, retry, backoff, last_exception, sleeps, notFetch>>

\* Lines 223-228: the end of a pass whose exception was swallowed.
AfterFailure(o) ==
    LET left == IF retry # Unlimited THEN retry - 1 ELSE retry
    IN  /\ attempts' = Append(attempts, o)
        /\ requests' = requests \o Issued(hargs.method, o)
        /\ last_exception' = o
        /\ retry' = left
        /\ IF Truthy(left)
           THEN /\ sleeps' = Append(sleeps, backoff)
                /\ backoff' = Min(backoff * 2, MaxBackoffValue)
           ELSE UNCHANGED <<sleeps, backoff>>
        /\ UNCHANGED <<hpc, hargs, hret, notFetch>>

\* except TimeoutException
AttemptTimeout(o) ==
    /\ hpc = "loop" /\ Truthy(retry)
    /\ o \in TimeoutOutcomes /\ MayAnswer(o)
    /\ AfterFailure(o)

\* except HTTPStatusError
AttemptStatusError(o) ==
    /\ hpc = "loop" /\ Truthy(retry)
    /\ o \in StatusOutcomes /\ MayAnswer(o)
    /\ IF Retryable(o.code, o.server)
       THEN AfterFailure(o)
       ELSE /\ attempts' = Append(attempts, o)
            /\ requests' = requests \o Issued(hargs.method, o)
            /\ last_exception' = o
            /\ hpc' = "raised"
            /\ hret' = HRet("raised", 0, o)
            /\ UNCHANGED <<hargs, retry, backoff, sleeps, notFetch>>

\* except HTTPError
AttemptHTTPError(o) ==
    /\ hpc = "loop" /\ Truthy(retry)
    /\ o \in TransportOutcomes /\ MayAnswer(o)
    /\ AfterFailure(o)

\* `while retry` is false: `raise last_exception`, a TypeError when it is None.
LoopExit ==
    /\ hpc = "loop" /\ ~Truthy(retry)
    /\ hpc' = "raised"
    /\ hret' = HRet("raised", 0,
                    IF last_exception = NoException THEN TypeError
                    ELSE last_exception)
    /\ UNCHANGED <<hargs, retry, backoff, last_exception, attempts, sleeps,
                   requests, notFetch>>

Urls == {<<"u">>}
Budgets == Unlimited..MaxBudget

FetchNext ==
    \/ \E m \in Methods, u \in Urls, b \in Budgets : HttpRequestCall(m, u, b)
    \/ \E o \in OkOutcomes : AttemptReturns(o)
    \/ \E o \in TimeoutOutcomes : AttemptTimeout(o)
    \/ \E o \in StatusOutcomes : AttemptStatusError(o)
    \/ \E o \in TransportOutcomes : AttemptHTTPError(o)
    \/ LoopExit

-----------------------------------------------------------------------------
(* The @cache around http_request, and a call of it seen from a caller:    *)
(* a cached body, or one run of the body to its end.                       *)

CacheIdle ==
    /\ cache = <<>>
    /\ bodyRuns = <<>>
    /\ hits = 0

CacheKey(method, url, budget) == <<method, url, budget>>

\* http_request without its @cache: no call is answered from the cache.
CacheHitNever(c, key) == FALSE

\* functools.cache: the call is answered from the cache when its key is there.
CacheHit(c, key) == key \in DOMAIN c

\* How a run of the body with an unlimited budget can end: `while retry`
\* stays true, so only `return response.read()` and `raise e` leave the loop.
EndsUnlimited(o) ==
    \/ o.kind = "ok"
    \/ o.kind = "HTTPStatusError" /\ ~Retryable(o.code, o.server)

\* The cache after a call returned body: functools.cache stores what the
\* body returned when the key was missing (an exception stores nothing).
CacheAfter(c, key, body) == IF CacheHit(c, key) THEN c ELSE (key :> body) @@ c

RunsAfter(r, c, key) ==
    IF CacheHit(c, key) THEN r
    ELSE (key :> (IF key \in DOMAIN r THEN r[key] + 1 ELSE 1)) @@ r

-----------------------------------------------------------------------------
(* The firmware API, as get_firmware_list_bisect sees it.                  *)

ApiUrlPrefix == "https://api.shimano.com/etube/firmware/"

\* urllib.parse.quote: the characters of a version string (digits, ".", "-")
\* are left as they are; any other is escaped (written here "%", c).
RECURSIVE Quote(_)
Quote(s) ==
    IF Len(s) = 0 THEN <<>>
    ELSE (IF IsDigit(s[1]) \/ s[1] \in {".", "-", "_", "~", "/"} THEN <<s[1]>>
          ELSE <<"%", s[1]>>) \o Quote(Tail(s))

\* get_firmware_list_json: the URL asked for a version string.
FirmwareUrl(version) == <<ApiUrlPrefix>> \o Quote(version)

\* The server's side.  It orders the versions it is asked for by
\* (major, minor, patch); a version's position is its rank in that order
\* among the versions with minor and patch below 20.
ApiPosition(url) ==
    LET v == VersionFields(StrVal(Tail(url)))
    IN  v.major * 400 + v.minor * 20 + v.patch

\* The payload function: a step function of the version, each payload on
\* one contiguous run of versions; payload k is the one after k breakpoints.
ApiPayload(url) == Cardinality({b \in steps : b <= ApiPosition(url)})

ApiNotFound == Outcome("HTTPStatusError", 404, "nginx", 2, 0)

\* How a call http_get(url) from the discoverer ends, the body having run.
ApiAnswer(url) ==
    IF apiUp THEN Outcome("ok", 200, "nginx", 2, ApiPayload(url))
    ELSE ApiNotFound

-----------------------------------------------------------------------------
(* get_firmware_list_bisect.                                               *)

VerMinStr == <<"2", ".", "2", ".", "3">>
VerMaxStr == <<"9", ".", "9", ".", "1", "9">>

Frame(low, high, mid, pc, a, b, dct) ==
    [low |-> low, high |-> high, mid |-> mid, pc |-> pc, a |-> a, b |-> b,
     dct |-> dct]
NewFrame(low, high) == Frame(low, high, low, "start", 0, 0, {})

BisectIdle ==
    /\ bpc = "idle"
    /\ stack = <<>>
    /\ progress = 0
    /\ result = {}
    /\ invocation = 0
    /\ atStart = [cache |-> <<>>, runs |-> <<>>]

Top == stack[Len(stack)]
Below == SubSeq(stack, 1, Len(stack) - 1)

\* A bisection that stops one level early: a window of three versions is
\* taken for final.
FinalWindowOfThree(low, mid, high) ==
    VersionInt(high) - VersionInt(low) <= 2

\* A bisection that takes a call for final only when its range is a single
\* version.
FinalSingleVersion(low, mid, high) == VersionEq(low, high)

\* final = low == mid or high == mid
Final(low, mid, high) == VersionEq(low, mid) \/ VersionEq(high, mid)

\* json_fws_set = inner(ver_min, ver_max)
BisectStart ==
    /\ bpc = "idle"
    /\ LET ver_min == VersionInit(StrVal(VerMinStr), FALSE)
           ver_max == VersionInit(StrVal(VerMaxStr), FALSE)
       IN  IF IsErr(ver_min) \/ IsErr(ver_max) \/ IsErr(VersionSub(ver_max, ver_min))
           THEN bpc' = "raised" /\ UNCHANGED stack
           ELSE bpc' = "running" /\ stack' = <<NewFrame(ver_min, ver_max)>>
    /\ invocation' = invocation + 1
    /\ atStart' = [cache |-> cache, runs |-> bodyRuns]
    /\ UNCHANGED <<steps, apiUp, progress, result, cacheVars, notBisect>>

\* The process calls get_firmware_list_bisect() once more: a new Progress
\* and a new json_fws_set, the cache of http_request as it was left.
BisectAgain ==
    /\ bpc = "done" /\ invocation < MaxInvocations
    /\ bpc' = "running"
    /\ stack' = <<NewFrame(VersionInit(StrVal(VerMinStr), FALSE),
                           VersionInit(StrVal(VerMaxStr), FALSE))>>
    /\ progress' = 0
    /\ result' = {}
    /\ invocation' = invocation + 1
    /\ atStart' = [cache |-> cache, runs |-> bodyRuns]
    /\ UNCHANGED <<steps, apiUp, cacheVars, notBisect>>

\* An exception leaves every activation of inner.
BisectRaise(c, r, h) ==
    /\ bpc' = "raised"
    /\ stack' = <<>>
    /\ cache' = c /\ bodyRuns' = r /\ hits' = h
    /\ UNCHANGED <<steps, apiUp, progress, result, invocation, atStart, notBisect>>

\* get_firmware_list_json(version): http_get(url) through the cache, given
\* the cache c, the run counts r and the hit count h before the call.
GetFirmwareListJson(c, r, h, version) ==
    LET key == CacheKey("GET", FirmwareUrl(version), Unlimited)
        ans == IF CacheHit(c, key) THEN Outcome("ok", 200, "", 2, c[key])
               ELSE ApiAnswer(key[2])
    IN  [ends |-> EndsUnlimited(ans),
         ok |-> ans.kind = "ok",
         body |-> ans.body,
         cache |-> IF ans.kind = "ok" THEN CacheAfter(c, key, ans.body) ELSE c,
         runs |-> RunsAfter(r, c, key),
         hits |-> IF CacheHit(c, key) THEN h + 1 ELSE h]

\* A call of inner returned ret to the activations st that wait for it:
\* `{a, *inner(low, mid)}` and `dct.union(c).union(d)` return in turn to
\* their own callers, `c = inner(low, mid)` goes on to call inner(mid, high).
\* The stack left, and the set the outermost call returned if it did.
RECURSIVE Unwind(_, _)
Unwind(st, ret) ==
    IF Len(st) = 0 THEN [stack |-> <<>>, done |-> TRUE, result |-> ret]
    ELSE LET caller == st[Len(st)]
             rest == SubSeq(st, 1, Len(st) - 1)
         IN  IF caller.pc = "c"
             THEN [stack |-> Append(Append(rest,
                                 [caller EXCEPT !.dct = @ \cup ret, !.pc = "d"]),
                                 NewFrame(caller.mid, caller.high)),
                   done |-> FALSE, result |-> {}]
             ELSE Unwind(rest, caller.dct \cup ret)

\* The lines of inner after both payloads are fetched: a final call returns,
\* any other calls inner(low, mid).
InnerBranch(low, high, mid, a, b) ==
    /\ progress' = IF a = b THEN progress + VersionInt(VersionSub(high, mid))
                   ELSE progress
    /\ IF Final(low, mid, high)
       THEN \E u \in {Unwind(Below, IF a = b THEN {a} ELSE {a, b})} :
              /\ stack' = u.stack
              /\ bpc' = IF u.done THEN "done" ELSE bpc
              /\ result' = IF u.done THEN u.result ELSE result
       ELSE /\ stack' = Append(Append(Below,
                                   Frame(low, high, mid, IF a = b THEN "eq" ELSE "c",
                                         a, b, IF a = b THEN {a} ELSE {a, b})),
                               NewFrame(low, mid))
            /\ UNCHANGED <<bpc, result>>
    /\ UNCHANGED <<steps, apiUp, invocation, atStart, notBisect>>

\* One activation of inner(low, high), from its first line to its first
\* recursive call or, when it is final, through its return to the next call
\* of inner that its callers make.
InnerBody ==
    /\ bpc = "running" /\ Top.pc = "start"
    /\ \E mid \in {VersionFromInt((VersionInt(Top.low) + VersionInt(Top.high)) \div 2)} :
         IF IsErr(mid) THEN BisectRaise(cache, bodyRuns, hits)
         ELSE
         \E ga \in {GetFirmwareListJson(cache, bodyRuns, hits, VersionStr(mid))} :
           /\ ga.ends
           /\ IF ~ga.ok THEN BisectRaise(ga.cache, ga.runs, ga.hits)
              ELSE
              \E gb \in {GetFirmwareListJson(ga.cache, ga.runs, ga.hits,
                                             VersionStr(Top.high))} :
                /\ gb.ends
                /\ IF ~gb.ok \/ (ga.body = gb.body /\ IsErr(VersionSub(Top.high, mid)))
                   THEN BisectRaise(gb.cache, gb.runs, gb.hits)
                   ELSE /\ cache' = gb.cache
                        /\ bodyRuns' = gb.runs
                        /\ hits' = gb.hits
                        /\ InnerBranch(Top.low, Top.high, mid, ga.body, gb.body)

BisectNext == BisectStart \/ InnerBody

\* A process that calls get_firmware_list_bisect() more than once.
ProcessNext == BisectStart \/ InnerBody \/ BisectAgain

\* The payload functions: constant, one breakpoint anywhere strictly inside
\* the search range, two breakpoints PairGap apart anywhere inside it, and
\* one with a breakpoint at each of DenseLen versions in a row from the
\* middle of the range.
SearchLow == ApiPosition(FirmwareUrl(VerMinStr))
SearchHigh == ApiPosition(FirmwareUrl(VerMaxStr))
StepSets ==
    {{}} \cup {{b} : b \in (SearchLow + 1)..SearchHigh}
         \cup {{b, b + PairGap} : b \in (SearchLow + 1)..(SearchHigh - PairGap)}
         \cup {LET first == (SearchLow + SearchHigh) \div 2
               IN  first..(first + DenseLen - 1)}

ApiIdle == steps = {} /\ apiUp = TRUE

-----------------------------------------------------------------------------
(* Python string operations on sequences of characters.                    *)

\* The characters that occur in filenames and model names, in the order of
\* their code points ("-" < "." < digits < upper case < "_" < lower case).
CharOrder ==
    <<"-", ".", "0", "1", "2", "3", "4", "5", "6", "7", "8", "9",
      "A", "B", "D", "F", "R", "S", "T", "W", "X", "Y", "Z", "_", "b", "i", "n">>
CharCode(c) == CHOOSE i \in 1..Len(CharOrder) : CharOrder[i] = c

\* s < t for str: the first differing character decides, a proper prefix is less.
RECURSIVE StrLess(_, _)
StrLess(s, t) ==
    IF Len(t) = 0 THEN FALSE
    ELSE IF Len(s) = 0 THEN TRUE
    ELSE IF s[1] = t[1] THEN StrLess(Tail(s), Tail(t))
    ELSE CharCode(s[1]) < CharCode(t[1])

\* s.replace("-", "")
RECURSIVE RemoveHyphens(_)
RemoveHyphens(s) ==
    IF Len(s) = 0 THEN <<>>
    ELSE (IF s[1] = "-" THEN <<>> ELSE <<s[1]>>) \o RemoveHyphens(Tail(s))

\* s in t for str: s is a substring of t.
IsSubstring(s, t) ==
    \E i \in 0..(Len(t) - Len(s)) : SubSeq(t, i + 1, i + Len(s)) = s

\* The length of the common run of a from i and b from j, within ahi and bhi.
RECURSIVE RunLength(_, _, _, _, _, _)
RunLength(a, b, i, j, ahi, bhi) ==
    IF i > ahi \/ j > bhi \/ a[i] # b[j] THEN 0
    ELSE 1 + RunLength(a, b, i + 1, j + 1, ahi, bhi)

\* difflib.SequenceMatcher.find_longest_match(alo, ahi, blo, bhi), without
\* junk: the longest block a[i:i+k] = b[j:j+k] within a[alo..ahi] and
\* b[blo..bhi] (first and last index here); of the longest, the one that
\* starts earliest in a, and of those the one that starts earliest in b.
FindLongestMatch(a, b, alo, ahi, blo, bhi) ==
    LET blocks == {<<i, j, RunLength(a, b, i, j, ahi, bhi)>> :
                      i \in alo..ahi, j \in blo..bhi}
        best == CHOOSE x \in blocks :
                  \A y \in blocks :
                     \/ x[3] > y[3]
                     \/ x[3] = y[3] /\ x[1] < y[1]
                     \/ x[3] = y[3] /\ x[1] = y[1] /\ x[2] <= y[2]
    IN  IF alo > ahi \/ blo > bhi THEN <<alo, blo, 0>> ELSE best

\* The sum of the sizes of get_matching_blocks(): the longest match, then
\* the same to its left and to its right.
RECURSIVE MatchedSize(_, _, _, _, _, _)
MatchedSize(a, b, alo, ahi, blo, bhi) ==
    LET m == FindLongestMatch(a, b, alo, ahi, blo, bhi)
    IN  IF m[3] = 0 THEN 0
        ELSE m[3] + MatchedSize(a, b, alo, m[1] - 1, blo, m[2] - 1)
                  + MatchedSize(a, b, m[1] + m[3], ahi, m[2] + m[3], bhi)

\* difflib.SequenceMatcher(None, a, b).ratio() = 2.0 * matches / length, 1.0
\* for two empty strings, as the fraction <<numerator, denominator>>.
Ratio(a, b) ==
    IF Len(a) + Len(b) = 0 THEN <<1, 1>>
    ELSE <<2 * MatchedSize(a, b, 1, Len(a), 1, Len(b)), Len(a) + Len(b)>>

\* ratio > 0.7
RatioAboveThreshold(r) == r[1] * 10 > 7 * r[2]

\* x[1] > y[1] for two ratios
RatioGreater(x, y) == x[1] * y[2] > y[1] * x[2]

-----------------------------------------------------------------------------
(* parse_fw_filename and class Firmware.                                   *)

\* The length of the longest run of digits of s from position i on.
RECURSIVE DigitRun(_, _)
DigitRun(s, i) ==
    IF i > Len(s) \/ ~IsDigit(s[i]) THEN 0 ELSE 1 + DigitRun(s, i + 1)

\* Whether s from position i on matches (\d+\.\d+\.\d+)(\..*), and where the
\* version ends: each \d+ takes its whole run of digits, since a "." must
\* follow it.
VersionAt(s, i) ==
    LET d1 == DigitRun(s, i)
        j == i + d1 + 1
        d2 == DigitRun(s, j)
        k == j + d2 + 1
        d3 == DigitRun(s, k)
        e == k + d3
    IN  [ok |-> /\ d1 > 0 /\ i + d1 <= Len(s) /\ s[i + d1] = "."
                /\ d2 > 0 /\ j + d2 <= Len(s) /\ s[j + d2] = "."
                /\ d3 > 0 /\ e <= Len(s) /\ s[e] = ".",
         end |-> e - 1]

\* parse_fw_filename(s): re.fullmatch(r"(.*)(.)(\d+\.\d+\.\d+)(\..*)", s).
\* The greedy (.*) takes the longest name for which the rest still matches.
\* No match is an AttributeError (None has no group); a version outside the
\* bounds of Version is the ValueError of Version(version_str).
ParseFwFilename(s) ==
    LET starts == {i \in 2..Len(s) : VersionAt(s, i).ok}
    IN  IF starts = {} THEN Raise("AttributeError")
        ELSE LET i == CHOOSE x \in starts : \A y \in starts : y <= x
                 e == VersionAt(s, i).end
                 version == VersionInit(StrVal(SubSeq(s, i, e)), FALSE)
             IN  IF IsErr(version) THEN version
                 ELSE [name |-> SubSeq(s, 1, i - 2),
                       sep |-> s[i - 1],
                       version |-> version,
                       ext |-> SubSeq(s, e + 1, Len(s))]

\* None for the optional fields of Firmware: filesize, md5, type.
NoneInt == 0 - 1
NoneStr == "None"

Firmware(filename, version, filesize, md5, type, download_url) ==
    [filename |-> filename, version |-> version, filesize |-> filesize,
     md5 |-> md5, type |-> type, download_url |-> download_url]

\* Firmware.is_valid
IsValid(fw) == Len(fw.filename) > 0 /\ Len(fw.download_url) > 0

-----------------------------------------------------------------------------
(* get_all_firmware: grouping, matching, synthesis, verification.          *)

PublishedPrefix == "https://api.shimano.com/etube/public/data/upload/published/"
NoModel == <<"None">>

\* Python's dict as a sequence of [key, val] in insertion order.
HasKey(d, k) == \E i \in 1..Len(d) : d[i].key = k
Lookup(d, k) == d[CHOOSE i \in 1..Len(d) : d[i].key = k].val

\* fws_dict.setdefault(name, []).append(fw)
SetDefaultAppend(d, k, x) ==
    IF HasKey(d, k)
    THEN [i \in 1..Len(d) |->
             IF d[i].key = k THEN [key |-> k, val |-> Append(d[i].val, x)]
             ELSE d[i]]
    ELSE Append(d, [key |-> k, val |-> <<x>>])

\* Lines 323-326: the records grouped by the name of their filename, with
\* the exception parse_fw_filename raised, "" for none.
RECURSIVE GroupByName(_, _)
GroupByName(list, d) ==
    IF Len(list) = 0 THEN [exc |-> "", groups |-> d]
    ELSE LET parsed == ParseFwFilename(list[1].filename)
         IN  IF IsErr(parsed) THEN [exc |-> parsed.exc, groups |-> <<>>]
             ELSE GroupByName(Tail(list), SetDefaultAppend(d, parsed.name, list[1]))

\* next((model ...) for (model, model_norm) in ... if cond), None): the
\* index of the first scraped model that satisfies cond, 0 for None.
FirstSubstr(name) ==
    LET hit == {i \in 1..Len(scraped) :
                   IsSubstring(RemoveHyphens(scraped[i].key), name)}
    IN  IF hit = {} THEN 0 ELSE CHOOSE i \in hit : \A j \in hit : i <= j
FirstRevSubstr(name) ==
    LET hit == {i \in 1..Len(scraped) :
                   IsSubstring(name, RemoveHyphens(scraped[i].key))}
    IN  IF hit = {} THEN 0 ELSE CHOOSE i \in hit : \A j \in hit : i <= j

\* max(((model, ratio) ...), key=lambda x: x[1]): the first model of the
\* greatest ratio; the scrape is not empty.
BestFuzzy(name) ==
    CHOOSE i \in 1..Len(scraped) :
        \A j \in 1..Len(scraped) :
           LET ri == Ratio(name, RemoveHyphens(scraped[i].key))
               rj == Ratio(name, RemoveHyphens(scraped[j].key))
           IN  RatioGreater(ri, rj) \/ (~RatioGreater(rj, ri) /\ i <= j)

\* Lines 334-373 for one name: the model matched or None, with the
\* exception raised, "" for none: the ValueError of max() over an empty
\* scrape.
MatchModel(name) ==
    IF FirstSubstr(name) # 0
    THEN [exc |-> "", model |-> scraped[FirstSubstr(name)].key]
    ELSE IF FirstRevSubstr(name) # 0
    THEN [exc |-> "", model |-> scraped[FirstRevSubstr(name)].key]
    ELSE IF Len(scraped) = 0 THEN [exc |-> "ValueError", model |-> NoModel]
    ELSE IF RatioAboveThreshold(Ratio(name,
                 RemoveHyphens(scraped[BestFuzzy(name)].key)))
    THEN [exc |-> "", model |-> scraped[BestFuzzy(name)].key]
    ELSE [exc |-> "", model |-> NoModel]

\* Lines 381-393: the record synthesized from the last record fw of a group
\* and a scraped version string.
Synthesized(fw, version) ==
    LET p == ParseFwFilename(fw.filename)
        filename == p.name \o <<p.sep>> \o version \o p.ext
    IN  Firmware(filename, version, NoneInt, NoneStr, fw.type,
                 <<PublishedPrefix>> \o filename)

\* Lines 375-393: the reconciled set.
Reconciled(groups, models) ==
    UNION {
        {groups[i].val[k] : k \in 1..Len(groups[i].val)}
            \cup (IF models[i].val = NoModel THEN {}
                  ELSE LET fw == groups[i].val[Len(groups[i].val)]
                           versions == Lookup(scraped, models[i].val)
                       IN  {Synthesized(fw, versions[k]) : k \in 1..Len(versions)})
        : i \in 1..Len(groups)}

\* sorted(set, key=lambda x: x.filename): the orders of the set by filename;
\* records of one filename stay in the set's own order, which is any.
RECURSIVE SortedByFilename(_)
SortedByFilename(set) ==
    IF set = {} THEN {<<>>}
    ELSE UNION {
           {<<m>> \o rest : rest \in SortedByFilename(set \ {m})}
           : m \in {x \in set : \A y \in set : ~StrLess(y.filename, x.filename)}}

PipeIdle ==
    /\ fws = <<>> /\ scraped = <<>>
    /\ ppc = "idle"
    /\ fws_dict = <<>> /\ fw_name_models = <<>>
    /\ fws_all_set = {} /\ todo = <<>> /\ fws_all = <<>> /\ checked = <<>>

\* Lines 322-373: the groups and the model matched to each.
GroupAndMatch ==
    /\ ppc = "start"
    /\ \E grouped \in {GroupByName(fws, <<>>)} :
         IF grouped.exc # ""
         THEN ppc' = "raised" /\ UNCHANGED <<fws_dict, fw_name_models>>
         ELSE \E matched \in {[i \in 1..Len(grouped.groups) |->
                                  MatchModel(grouped.groups[i].key)]} :
                IF \E i \in 1..Len(matched) : matched[i].exc # ""
                THEN ppc' = "raised" /\ UNCHANGED <<fws_dict, fw_name_models>>
                ELSE /\ ppc' = "matched"
                     /\ fws_dict' = grouped.groups
                     /\ fw_name_models' =
                            [i \in 1..Len(matched) |->
                                [key |-> grouped.groups[i].key,
                                 val |-> matched[i].model]]
    /\ UNCHANGED <<fws, scraped, fws_all_set, todo, fws_all, checked, cacheVars,
                   notPipe>>

\* Lines 375-398: the reconciled set, and the order it is verified in.
Synthesize ==
    /\ ppc = "matched"
    /\ ppc' = "verifying"
    /\ fws_all_set' = Reconciled(fws_dict, fw_name_models)
    /\ todo' \in SortedByFilename(Reconciled(fws_dict, fw_name_models))
    /\ UNCHANGED <<fws, scraped, fws_dict, fw_name_models, fws_all, checked,
                   cacheVars, notPipe>>

\* What the server may answer to the existence check of a record.
HeadAnswers ==
    {Outcome("ok", 200, "nginx", 2, 1),
     Outcome("HTTPStatusError", 404, "nginx", 2, 0),
     Outcome("HTTPStatusError", 429, "nginx", 2, 0),
     Outcome("HTTPStatusError", 503, "nginx", 2, 0)}

Failures == Cardinality({i \in 1..Len(checked) : checked[i].kind # "ok"})

\* Lines 397-409 for one record: http_head(fw.download_url) through the
\* cache; the record is appended unless an HTTPStatusError was raised.
VerifyOne(o) ==
    /\ ppc = "verifying" /\ Len(checked) < Len(todo)
    /\ LET fw == todo[Len(checked) + 1]
           key == CacheKey("HEAD", fw.download_url, Unlimited)
       IN  IF CacheHit(cache, key)
           THEN /\ o = Outcome("ok", 200, "", 0, cache[key])
                /\ hits' = hits + 1
                /\ fws_all' = Append(fws_all, fw)
                /\ UNCHANGED <<cache, bodyRuns>>
           ELSE /\ o \in HeadAnswers /\ EndsUnlimited(o)
                /\ o.kind = "ok" \/ Failures < MaxFailures
                /\ bodyRuns' = RunsAfter(bodyRuns, cache, key)
                /\ IF o.kind = "ok"
                   THEN /\ cache' = CacheAfter(cache, key, o.body)
                        /\ fws_all' = Append(fws_all, fw)
                   ELSE UNCHANGED <<cache, fws_all>>
                /\ UNCHANGED hits
    /\ checked' = Append(checked, o)
    /\ UNCHANGED <<fws, scraped, ppc, fws_dict, fw_name_models, fws_all_set, todo,
                   notPipe>>

\* return fws_all
PipelineReturn ==
    /\ ppc = "verifying" /\ Len(checked) = Len(todo)
    /\ ppc' = "done"
    /\ UNCHANGED <<fws, scraped, fws_dict, fw_name_models, fws_all_set, todo,
                   fws_all, checked, cacheVars, notPipe>>

PipeNext ==
    \/ GroupAndMatch
    \/ Synthesize
    \/ \E o \in HeadAnswers \cup {Outcome("ok", 200, "", 0, 1)} : VerifyOne(o)
    \/ PipelineReturn

\* The inputs of get_all_firmware.
Chars(name, sep, version, ext) == name \o <<sep>> \o version \o ext
Published(filename) == <<PublishedPrefix>> \o filename
BinExt == <<".", "b", "i", "n">>
V234 == <<"2", ".", "3", ".", "4">>
V250 == <<"2", ".", "5", ".", "0">>
V100 == <<"1", ".", "0", ".", "0">>
DiscoveredRecords ==
    { Firmware(Chars(<<"F", "W">>, "-", V234, BinExt), V234, 100, "m1", "t1",
               Published(Chars(<<"F", "W">>, "-", V234, BinExt))),
      Firmware(Chars(<<"F", "W">>, "-", V250, BinExt), V250, 200, "m2", "t1",
               Published(Chars(<<"F", "W">>, "-", V250, BinExt))),
      Firmware(Chars(<<"F", "W">>, "-", V250, BinExt), V250, NoneInt, NoneStr, "t1",
               Published(Chars(<<"F", "W">>, "-", V250, BinExt))),
      Firmware(Chars(<<"X", "Y">>, "_", V100, BinExt), V100, 300, "m3", "t2",
               Published(Chars(<<"X", "Y">>, "_", V100, BinExt))),
      Firmware(<<"Z", "Z">> \o BinExt, V100, 400, "m4", NoneStr,
               Published(<<"Z", "Z">> \o BinExt)) }
ScrapedEntries ==
    { [key |-> <<"F", "W">>, val |-> <<V234, V250>>],
      [key |-> <<"F", "W">>, val |-> <<V250>>],
      [key |-> <<"X", "-", "Y">>, val |-> <<V100, V250>>],
      [key |-> <<"F", "A", "W">>, val |-> <<V250>>],
      [key |-> <<"Z", "Z">>, val |-> <<V234>>] }

\* sanitize_fws: the lists get_firmware_list_bisect() can return from a set
\* of records: sorted by filename, the valid ones only.
Sanitized(set) == SortedByFilename({fw \in set : IsValid(fw)})
DiscoveredInputs ==
    UNION {Sanitized(set) : set \in {x \in SUBSET DiscoveredRecords :
                                        Cardinality(x) <= MaxDiscovered}}
RECURSIVE ScrapedInputsOf(_)
ScrapedInputsOf(n) ==
    IF n = 0 THEN {<<>>}
    ELSE ScrapedInputsOf(n - 1)
           \cup {Append(d, e) : d \in {x \in ScrapedInputsOf(n - 1) : Len(x) = n - 1},
                                e \in ScrapedEntries}
ScrapedInputs ==
    {d \in ScrapedInputsOf(MaxScraped) :
        \A i, j \in 1..Len(d) : d[i].key = d[j].key => i = j}

-----------------------------------------------------------------------------
(* Specifications.                                                         *)

InitVersion ==
    /\ vin \in VersionInputs /\ vop = "none" /\ vout = NoVersion
    /\ FetchIdle /\ CacheIdle /\ ApiIdle /\ BisectIdle /\ PipeIdle
SpecVersion == InitVersion /\ [][VersionNext]_vars

InitFetch ==
    VersionIdle /\ FetchIdle /\ CacheIdle /\ ApiIdle /\ BisectIdle /\ PipeIdle
SpecFetch == InitFetch /\ [][FetchNext]_vars

InitBisect ==
    /\ VersionIdle /\ FetchIdle /\ CacheIdle /\ BisectIdle /\ PipeIdle
    /\ steps \in StepSets
    /\ apiUp \in BOOLEAN
SpecBisect == InitBisect /\ [][BisectNext]_vars
SpecProcess == InitBisect /\ [][ProcessNext]_vars

InitPipe ==
    /\ VersionIdle /\ FetchIdle /\ CacheIdle /\ ApiIdle /\ BisectIdle
    /\ fws \in DiscoveredInputs
    /\ scraped \in ScrapedInputs
    /\ ppc = "start"
    /\ fws_dict = <<>> /\ fw_name_models = <<>>
    /\ fws_all_set = {} /\ todo = <<>> /\ fws_all = <<>> /\ checked = <<>>
SpecPipe == InitPipe /\ [][PipeNext]_vars

-----------------------------------------------------------------------------
(* The claims about Version, under SpecVersion.                            *)

\* The order the specification gives Version: lexicographic on the fields.
Lexicographic(a, b) ==
    \/ a.major < b.major
    \/ a.major = b.major /\ a.minor < b.minor
    \/ a.major = b.major /\ a.minor = b.minor /\ a.patch < b.patch

\* Every field from 0 up to and including the field of max().
FieldsInBounds(v) ==
    /\ v.major \in 0..VersionMax.major
    /\ v.minor \in 0..VersionMax.minor
    /\ v.patch \in 0..VersionMax.patch

\* C6: for every Version v with each field between 0 and the field of
\* max(), max() included, Version.from_int(int(v)) succeeds and equals v.
C6_RoundTrip ==
    (vop = "roundtrip" /\ FieldsInBounds(VersionFields(vin.val)))
        => vout = VersionFields(vin.val)

\* C7: v1 < v2 exactly when (major, minor, patch) of v1 is lexicographically
\* smaller than that of v2, for all valid versions v1 and v2.
C7_OrderingConsistency ==
    vop = "lt"
        => (vout.lt <=> Lexicographic(VersionFields(vin.val), VersionFields(vin.other)))

\* C8: constructing a Version, without the unchecked bypass, from a triplet
\* or string that lies outside the closed interval [0.0.0, 10.20.20] fails
\* with a range error (ValueError).
C8_BoundsCheck ==
    (/\ vop = "init"
     /\ ~IsErr(VersionFields(vin.val))
     /\ \/ Lexicographic(VersionFields(vin.val), VersionMin)
        \/ Lexicographic(VersionMax, VersionFields(vin.val)))
        => vout = Raise("ValueError")

-----------------------------------------------------------------------------
(* The claims about http_request, under SpecFetch.                         *)

Is503(o) == o.kind = "HTTPStatusError" /\ o.code = 503
Is429(o) == o.kind = "HTTPStatusError" /\ o.code = 429

\* C3: with a retry budget of at least 2 (2, more, or unlimited), a fetch
\* whose first two attempts fail with status 503 and whose third succeeds
\* returns the success payload, having slept exactly twice: 10, then 20.
C3_RetryPolicy ==
    (/\ hargs.retry = Unlimited \/ hargs.retry >= 2
     /\ Len(attempts) >= 2
     /\ Is503(attempts[1]) /\ Is503(attempts[2]))
        => /\ Len(attempts) = 2
                => hpc = "loop" /\ Truthy(retry) /\ sleeps = <<10, 20>>
           /\ (Len(attempts) = 3 /\ attempts[3] \in OkOutcomes)
                => /\ hret = HRet("returned", attempts[3].body, NoException)
                   /\ sleeps = <<10, 20>>

\* C4: with a retry budget of 0 the fetch attempts the request exactly once
\* and never sleeps: a success returns its body, a failure is raised.
C4_BudgetZero ==
    (hargs.retry = 0 /\ hpc \in {"returned", "raised"})
        => /\ Len(attempts) = 1
           /\ sleeps = <<>>
           /\ IF attempts[1] \in OkOutcomes
              THEN hret = HRet("returned", attempts[1].body, NoException)
              ELSE hret = HRet("raised", 0, attempts[1])

\* C5: an attempt that fails with status 429, whatever the server header,
\* while retries remain is not propagated: the fetch sleeps and goes on to
\* the next attempt.
C5_TooManyRequestsRetried ==
    (/\ Len(attempts) >= 1
     /\ Is429(attempts[Len(attempts)])
     /\ hargs.retry = Unlimited \/ Len(attempts) < hargs.retry)
        => /\ hpc = "loop" /\ Truthy(retry)
           /\ Len(sleeps) = Len(attempts)

-----------------------------------------------------------------------------
(* The claims about get_firmware_list_bisect, under SpecBisect.            *)

\* The payloads the API serves for the versions of the search range.
PayloadsInRange ==
    {Cardinality({b \in steps : b <= p}) : p \in SearchLow..SearchHigh}

\* C1: for every step function of the version over the search range, all
\* fetches succeeding, inner(low, high) returns exactly the set of distinct
\* payloads that occur in the range: one for a constant function, two for a
\* function with a single breakpoint strictly inside the range.
C1_BisectionComplete ==
    bpc = "done"
        => /\ result = PayloadsInRange
           /\ steps = {} => Cardinality(result) = 1
           /\ Cardinality(steps) = 1 => Cardinality(result) = 2

\* C1 witness: a discovery over a function with one breakpoint has returned
\* both payloads.
C1_Witness == bpc = "done" /\ Cardinality(steps) = 1 /\ result = {0, 1}

\* C2: within one discovery run in which every fetch succeeds, the body of
\* http_request runs at most once per (method, url, retry) key, and every
\* request for a version, from whichever call of inner, got the payload the
\* cache holds for it.
C2_FetchedOncePerKey ==
    /\ \A key \in DOMAIN bodyRuns : bodyRuns[key] <= 1
    /\ \A i \in 1..Len(stack) :
          stack[i].pc # "start"
              => /\ stack[i].a
                      = cache[CacheKey("GET", FirmwareUrl(VersionStr(stack[i].mid)),
                                       Unlimited)]
                 /\ stack[i].b
                      = cache[CacheKey("GET", FirmwareUrl(VersionStr(stack[i].high)),
                                       Unlimited)]

\* C2 witness: a discovery has finished in which payloads were asked for
\* again and answered from the cache.
C2_Witness == bpc = "done" /\ hits > 0 /\ Cardinality(DOMAIN cache) > 2

-----------------------------------------------------------------------------
(* Claims about get_all_firmware, under SpecPipe.                          *)

\* The records get_firmware_list_bisect() returned.
Discovered == {fws[k] : k \in 1..Len(fws)}

\* For every matched group, the records of the scraped versions that no
\* discovered record of the group carries.
MissingSynthesized ==
    UNION {
        IF fw_name_models[i].val = NoModel THEN {}
        ELSE LET group == fws_dict[i].val
                 versions == Lookup(scraped, fw_name_models[i].val)
             IN  {Synthesized(group[Len(group)], versions[k]) :
                    k \in {j \in 1..Len(versions) :
                             \A d \in 1..Len(group) : group[d].version # versions[j]}}
        : i \in 1..Len(fws_dict)}

\* C9: once the groups are reconciled, the set holds the discovered records
\* and, for every matched group, one synthesized record for exactly those
\* scraped versions that no discovered record of the group carries; so no
\* filename is in the set both as a discovered and as a synthesized record.
C9_SynthesisOnlyMissing ==
    ppc \in {"verifying", "done"}
        => /\ fws_all_set = Discovered \cup MissingSynthesized
           /\ \A s \in fws_all_set \ Discovered :
                 \A d \in Discovered : d.filename # s.filename

\* The statuses the retry policy names retryable: 5xx, 429, and 403 from
\* the CDN.
RetryableStatus(code, server) ==
    \/ code >= 500 /\ code <= 599
    \/ code = 429
    \/ code = 403 /\ server = "AkamaiGHost"

\* The check of a record ended in a fatal HTTP status.
EndedFatal(o) ==
    o.kind = "HTTPStatusError" /\ ~RetryableStatus(o.code, o.server)

\* The first n records of todo without those whose check ended fatally.
RECURSIVE KeptUpTo(_)
KeptUpTo(n) ==
    IF n = 0 THEN <<>>
    ELSE IF EndedFatal(checked[n]) THEN KeptUpTo(n - 1)
    ELSE Append(KeptUpTo(n - 1), todo[n])

\* C10: the verifier goes through the reconciled records in the order of
\* their filenames, and what it has kept is always the records gone through
\* so far, in that order, without exactly those whose check ended in a fatal
\* HTTP status; when it returns it has gone through all of them.
C10_VerificationFiltering ==
    ppc \in {"verifying", "done"}
        => /\ todo \in SortedByFilename(fws_all_set)
           /\ fws_all = KeptUpTo(Len(checked))
           /\ ppc = "done" => Len(checked) = Len(todo)

-----------------------------------------------------------------------------
(* Claims about the scope of the cache, under SpecProcess.                 *)

\* C11: every call of get_firmware_list_bisect() begins with an empty
\* cache, so no call is answered from what an earlier call stored; and
\* during one call no key is stored more than once.
C11_CacheScoped ==
    invocation >= 1
        => /\ DOMAIN atStart.cache = {}
           /\ \A key \in DOMAIN bodyRuns :
                 bodyRuns[key] - (IF key \in DOMAIN atStart.runs
                                  THEN atStart.runs[key] ELSE 0) <= 1

-----------------------------------------------------------------------------
(* Claims about unmatched groups, under SpecPipe.                          *)

\* No scraped model matches the group name: none by containment either way,
\* and none with a ratio above 0.7.
Unmatchable(name) ==
    \A i \in 1..Len(scraped) :
       LET norm == RemoveHyphens(scraped[i].key)
       IN  /\ ~IsSubstring(norm, name)
           /\ ~IsSubstring(name, norm)
           /\ ~RatioAboveThreshold(Ratio(name, norm))

\* The names of the groups of the discovered records.
GroupNames ==
    {ParseFwFilename(fws[k].filename).name : k \in 1..Len(fws)}

\* C12: when the discovered records are grouped, matching ends without an
\* exception whatever the scrape holds, an empty scrape included; a group
\* that no scraped model matches is marked unmatched and the reconciled set
\* holds no record of its name but the discovered ones; and every
\* discovered record, of a matched group or not, is in the reconciled set
\* as it was.
C12_UnmatchedKept ==
    (ppc # "start" /\ GroupByName(fws, <<>>).exc = "")
        => /\ ppc # "raised"
           /\ \A i \in 1..Len(fw_name_models) :
                 Unmatchable(fw_name_models[i].key)
                     => fw_name_models[i].val = NoModel
           /\ ppc \in {"verifying", "done"}
                 => /\ Discovered \subseteq fws_all_set
                    /\ \A r \in fws_all_set \ Discovered :
                          ~Unmatchable(ParseFwFilename(r.filename).name)

-----------------------------------------------------------------------------
(* Claims about Version.mid and Version.from_int, under SpecVersion.       *)

\* C13: for every pair of versions low <= high with fields in bounds,
\* Version.mid(low, high) succeeds and returns the version whose encoding
\* is floor((int(low) + int(high)) / 2), which lies between int(low) and
\* int(high).
C13_Midpoint ==
    LET low == VersionFields(vin.val)
        high == VersionFields(vin.other)
    IN  (/\ vop = "mid"
         /\ FieldsInBounds(low) /\ FieldsInBounds(high)
         /\ Lexicographic(low, high) \/ low = high)
            => /\ ~IsErr(vout)
               /\ VersionInt(vout) = (VersionInt(low) + VersionInt(high)) \div 2
               /\ VersionInt(low) <= VersionInt(vout)
               /\ VersionInt(vout) <= VersionInt(high)

\* C14: Version.from_int raises for int(Version.max()) + 1, for every
\* greater integer and for every negative integer.
C14_OverflowRejected ==
    (vop = "from_int" /\ (vin.num > VersionInt(VersionMax) \/ vin.num < 0))
        => vout = Raise("ValueError")

\* C14 witness: from_int(int(max()) + 1) was called and raised.
C14_Witness ==
    /\ vop = "from_int" /\ vin.num = VersionInt(VersionMax) + 1
    /\ vout = Raise("ValueError")

-----------------------------------------------------------------------------
(* Claims about the cost and the termination of the bisection, under       *)
(* SpecBisect.                                                             *)

\* inner fetches two payloads, of mid and of high.
ProbesPerCall == 2

\* The least l with 2^l >= n.
RECURSIVE Log2Ceil(_)
Log2Ceil(n) == IF n <= 1 THEN 0 ELSE 1 + Log2Ceil((n + 1) \div 2)

\* The width of the search range and the distinct versions fetched.
SearchWidth == SearchHigh - SearchLow
Probes == Cardinality(DOMAIN cache)

-----------------------------------------------------------------------------
(* Claims about the errors and the sleeps of http_request, under SpecFetch. *)

\* An HTTP status error that the retry policy names fatal: not 5xx, not
\* 429, not 403 from the CDN.
FatalStatus(o) ==
    o.kind = "HTTPStatusError" /\ ~RetryableStatus(o.code, o.server)

\* C16: an attempt that fails with a fatal HTTP status (404; 403 from a
\* server that is not the CDN) is the last attempt of the fetch, whatever
\* the budget: the fetch raises that error, and has slept only between the
\* attempts before it.
C16_FatalStatusPropagated ==
    \A i \in 1..Len(attempts) :
       FatalStatus(attempts[i])
           => /\ i = Len(attempts)
              /\ hpc = "raised"
              /\ hret = HRet("raised", 0, attempts[i])
              /\ Len(sleeps) = i - 1

\* C16 witness: with an unlimited budget a 404 on the second attempt, after
\* a failure that was retried, was raised.
C16_Witness ==
    /\ hargs.retry = Unlimited /\ hpc = "raised"
    /\ Len(attempts) = 2 /\ Len(sleeps) = 1
    /\ attempts[2].kind = "HTTPStatusError" /\ attempts[2].code = 404

\* C17: an attempt that fails with an error that is neither a timeout nor
\* an HTTP status error (a transport error) is the last attempt of the
\* fetch, whatever the budget: the fetch raises that error without a sleep
\* after it.
C17_TransportErrorPropagated ==
    \A i \in 1..Len(attempts) :
       attempts[i].kind = "HTTPError"
           => /\ i = Len(attempts)
              /\ hpc = "raised"
              /\ hret = HRet("raised", 0, attempts[i])
              /\ Len(sleeps) = i - 1

\* min(10 * 2^(k-1), 300)
RECURSIVE Schedule(_)
Schedule(k) == IF k = 1 THEN 10 ELSE Min(2 * Schedule(k - 1), 300)

\* A failure that the retry policy names retryable: a timeout, or a status
\* of 5xx, 429, or 403 from the CDN.
RetryableFailure(o) ==
    \/ o.kind = "TimeoutException"
    \/ o.kind = "HTTPStatusError" /\ RetryableStatus(o.code, o.server)

\* C18: within one fetch the k-th sleep lasts min(10 * 2^(k-1), 300); it
\* comes after the k-th attempt, which was a retryable failure, and before
\* the next attempt; and a fetch that has ended did not sleep after its
\* last attempt.
C18_BackoffSchedule ==
    /\ \A k \in 1..Len(sleeps) :
          /\ sleeps[k] = Schedule(k)
          /\ k <= Len(attempts) /\ RetryableFailure(attempts[k])
    /\ Len(sleeps) < Len(attempts) => Len(sleeps) = Len(attempts) - 1
    /\ (hpc \in {"returned", "raised"} /\ Len(attempts) > 0)
          => Len(sleeps) = Len(attempts) - 1

\* C19: every attempt puts exactly one request on the network, with the
\* method the caller passed.
C19_OneRequestPerAttempt ==
    /\ Len(requests) = Len(attempts)
    /\ \A i \in 1..Len(requests) : requests[i] = hargs.method

\* The encoded width of the range of a call of inner.
Width(f) == VersionInt(f.high) - VersionInt(f.low)

\* With every fetch returning: nothing raises (every midpoint and every
\* high - mid decodes), every call of inner is on a range strictly narrower
\* than its caller's, and a call that has called inner was not final.
NarrowingCalls ==
    apiUp
        => /\ bpc # "raised"
           /\ \A i \in 2..Len(stack) : Width(stack[i]) < Width(stack[i - 1])
           /\ \A i \in 1..(Len(stack) - 1) :
                 ~Final(stack[i].low, stack[i].mid, stack[i].high)

\* The most calls of inner that a call on a range of width w can lead to,
\* itself included: 1 when it is final (w <= 1), else 1 and those of its two
\* halves, which is 2w - 1.
Work(w) == IF w = 0 THEN 1 ELSE 2 * w - 1

\* The calls of inner still to come: those of the call about to run, and
\* those of the second half of every call that waits for its first half.
RECURSIVE CallsToCome(_)
CallsToCome(st) ==
    IF Len(st) = 0 THEN 0
    ELSE LET f == st[Len(st)]
         IN  CallsToCome(SubSeq(st, 1, Len(st) - 1))
               + (IF f.pc = "start" THEN Work(Width(f))
                  ELSE IF f.pc = "c"
                       THEN Work(VersionInt(f.high) - VersionInt(f.mid))
                  ELSE 0)

\* A step of a running discovery leaves fewer calls to come.
FewerCallsToCome ==
    (bpc = "running" /\ bpc' = "running")
        => /\ CallsToCome(stack') < CallsToCome(stack)
           /\ CallsToCome(stack') >= 0

\* C20: from the range [2.2.3, 9.9.19], for any payload function and with
\* all fetches returning, every recursive call of inner is on a strictly
\* narrower range than its caller's, a final call makes no recursive call,
\* no midpoint and no progress difference raises, and the recursion
\* terminates: every step lowers a bound on the calls of inner still to
\* come, which is never negative.
C20_BisectionTerminates ==
    /\ []NarrowingCalls
    /\ [][FewerCallsToCome]_vars

\* C20 witness: a discovery over a function with two breakpoints, which
\* recursed into both halves, has returned all three payloads.
C20_Witness ==
    /\ bpc = "done" /\ stack = <<>>
    /\ Cardinality(steps) = 2 /\ Cardinality(result) = 3

=============================================================================
